---- MODULE Spec2Model ----
(***************************************************************************)
(* Model of rotor's Response type (src/response.rs), its combinators and   *)
(* decompose(), of the Echo machine of examples/tcp_echo_server.rs, and of *)
(* a driver that delivers triggers and consumes decomposed responses.      *)
(***************************************************************************)
EXTENDS Integers, Sequences, FiniteSets, TLC

\* TLC orders the fields of a record by their first occurrence in the module.
\* Every record below lists its fields in this (alphabetical) order.
FieldOrder ==
    <<[before |-> 0, child |-> 0, e |-> 0, ended |-> 0, error |-> 0, f |-> 0],
      [first |-> 0, free |-> 0, g |-> 0, id |-> 0, io |-> 0, kind |-> 0],
      [m |-> 0],
      [msg |-> 0, n |-> 0, ok |-> 0, op |-> 0, res |-> 0, ret |-> 0, t |-> 0],
      [tag |-> 0, tok |-> 0, token |-> 0, triple |-> 0, v |-> 0, warned |-> 0]>>

\* ---------------------------------------------------------------- bounds
\* transforms / inspections applied to one response before it is decomposed
MaxOps == 3
\* responses built and decomposed in one behaviour
MaxRounds == 2
\* slots of the driver's machine table
NumSlots == 2
\* machines the driver registers in one behaviour
MaxMachines == 3

\* ---------------------------------------------------------------- values
\* A machine is the base value given to a constructor followed by the tags
\* of the mapper closures applied to it so far (a mapper wraps the value).
Machines == {<<"m1">>}
\* spawn payloads (the N of Response<M, N>), wrapped the same way
Seeds == {<<"n1">>}
\* Box<Error> values
Errors == {"e1", "e2"}
\* Time values
Times == 0..1
\* mio::Token values
Tokens == 0..1
\* the closures handed to map/wrap as self_mapper and as result_mapper: a
\* wrapping constructor, or the identity
SelfMappers == {"A", "id"}
ResultMappers == {"B", "id"}

ApplyFn(f, x) == IF f = "id" THEN x ELSE Append(x, f)

None == <<>>
Some(x) == <<x>>
Ok(m) == [ok |-> TRUE, v |-> m]
Err(o) == [ok |-> FALSE, v |-> o]

\* ---------------------------------------------------------------- ResponseImpl
Normal(m) == [m |-> m, tag |-> "Normal"]
Deadline(m, t) == [m |-> m, t |-> t, tag |-> "Deadline"]
Spawn(m, n) == [m |-> m, n |-> n, tag |-> "Spawn"]
Error(e) == [e |-> e, tag |-> "Error"]
Done == [tag |-> "Done"]
\* the result of a call that panicked: no Response is returned
Panic(msg) == [msg |-> msg, tag |-> "Panic"]

\* ---------------------------------------------------------------- constructors
ok(machine) == Normal(machine)
spawn(machine, result) == Spawn(machine, result)
done == Done
error(e) == Error(e)

\* ---------------------------------------------------------------- combinators
\* deadline() variants: one keeps the earlier of the two times, one lets a
\* deadline on done() pass as a no-op
deadline_KeepsEarlier(self, time) ==
    CASE self.tag = "Normal" -> Deadline(self.m, time)
      [] self.tag = "Deadline" ->
            Deadline(self.m, IF self.t < time THEN self.t ELSE time)
      [] self.tag = "Spawn" -> Panic("deadline on spawn")
      [] self.tag = "Done" -> Panic("deadline on done")
      [] self.tag = "Error" -> Panic("deadline on error")

deadline_IgnoredOnDone(self, time) ==
    CASE self.tag = "Normal" -> Deadline(self.m, time)
      [] self.tag = "Deadline" -> Deadline(self.m, time)
      [] self.tag = "Spawn" -> Panic("deadline on spawn")
      [] self.tag = "Done" -> Done
      [] self.tag = "Error" -> Panic("deadline on error")

deadline(self, time) ==
    CASE self.tag = "Normal" -> Deadline(self.m, time)
      [] self.tag = "Deadline" -> Deadline(self.m, time)
      [] self.tag = "Spawn" -> Panic("deadline on spawn")
      [] self.tag = "Done" -> Panic("deadline on done")
      [] self.tag = "Error" -> Panic("deadline on error")

\* map() variants: one forgets the time of a Deadline, one turns an Error
\* into Done
map_DropsDeadline(self, self_mapper, result_mapper) ==
    CASE self.tag = "Normal" -> Normal(ApplyFn(self_mapper, self.m))
      [] self.tag = "Deadline" -> Normal(ApplyFn(self_mapper, self.m))
      [] self.tag = "Spawn" ->
            Spawn(ApplyFn(self_mapper, self.m), ApplyFn(result_mapper, self.n))
      [] self.tag = "Done" -> Done
      [] self.tag = "Error" -> Error(self.e)

map_ErrorToDone(self, self_mapper, result_mapper) ==
    CASE self.tag = "Normal" -> Normal(ApplyFn(self_mapper, self.m))
      [] self.tag = "Deadline" -> Deadline(ApplyFn(self_mapper, self.m), self.t)
      [] self.tag = "Spawn" ->
            Spawn(ApplyFn(self_mapper, self.m), ApplyFn(result_mapper, self.n))
      [] self.tag = "Done" -> Done
      [] self.tag = "Error" -> Done

map(self, self_mapper, result_mapper) ==
    CASE self.tag = "Normal" -> Normal(ApplyFn(self_mapper, self.m))
      [] self.tag = "Deadline" -> Deadline(ApplyFn(self_mapper, self.m), self.t)
      [] self.tag = "Spawn" ->
            Spawn(ApplyFn(self_mapper, self.m), ApplyFn(result_mapper, self.n))
      [] self.tag = "Done" -> Done
      [] self.tag = "Error" -> Error(self.e)

\* wrap() variant that applies the machine mapper to the spawn payload too
wrap_MapsSeed(self, self_mapper) ==
    CASE self.tag = "Normal" -> Normal(ApplyFn(self_mapper, self.m))
      [] self.tag = "Deadline" -> Deadline(ApplyFn(self_mapper, self.m), self.t)
      [] self.tag = "Spawn" ->
            Spawn(ApplyFn(self_mapper, self.m), ApplyFn(self_mapper, self.n))
      [] self.tag = "Done" -> Done
      [] self.tag = "Error" -> Error(self.e)

\* wrap() variant that leaves the machine of a Deadline as it was
wrap_SkipsDeadline(self, self_mapper) ==
    CASE self.tag = "Normal" -> Normal(ApplyFn(self_mapper, self.m))
      [] self.tag = "Deadline" -> Deadline(self.m, self.t)
      [] self.tag = "Spawn" -> Spawn(ApplyFn(self_mapper, self.m), self.n)
      [] self.tag = "Done" -> Done
      [] self.tag = "Error" -> Error(self.e)

wrap(self, self_mapper) ==
    CASE self.tag = "Normal" -> Normal(ApplyFn(self_mapper, self.m))
      [] self.tag = "Deadline" -> Deadline(ApplyFn(self_mapper, self.m), self.t)
      [] self.tag = "Spawn" -> Spawn(ApplyFn(self_mapper, self.m), self.n)
      [] self.tag = "Done" -> Done
      [] self.tag = "Error" -> Error(self.e)

\* is_stopped() variant that takes a spawn request for a stop
is_stopped_SpawnStops(self) ==
    CASE self.tag = "Normal" -> FALSE
      [] self.tag = "Deadline" -> FALSE
      [] self.tag = "Spawn" -> TRUE
      [] self.tag = "Done" -> TRUE
      [] self.tag = "Error" -> TRUE

\* is_stopped() variant that reports only done() as stopped
is_stopped_OnlyDone(self) ==
    CASE self.tag = "Normal" -> FALSE
      [] self.tag = "Deadline" -> FALSE
      [] self.tag = "Spawn" -> FALSE
      [] self.tag = "Done" -> TRUE
      [] self.tag = "Error" -> FALSE

is_stopped(self) ==
    CASE self.tag = "Normal" -> FALSE
      [] self.tag = "Deadline" -> FALSE
      [] self.tag = "Spawn" -> FALSE
      [] self.tag = "Done" -> TRUE
      [] self.tag = "Error" -> TRUE

\* cause() variant that reports an error for a machine that merely finished
cause_ReportsDone(self) ==
    CASE self.tag = "Normal" -> None
      [] self.tag = "Deadline" -> None
      [] self.tag = "Spawn" -> None
      [] self.tag = "Done" -> Some("e1")
      [] self.tag = "Error" -> Some(self.e)

cause(self) ==
    CASE self.tag = "Normal" -> None
      [] self.tag = "Deadline" -> None
      [] self.tag = "Spawn" -> None
      [] self.tag = "Done" -> None
      [] self.tag = "Error" -> Some(self.e)

\* ---------------------------------------------------------------- expect_*
\* what a call hands back when it does not panic
Returned(x) == [tag |-> "Returned", v |-> x]

\* expect_machine() variant that also hands back the machine of a Spawn
expect_machine_DropsSeed(self) ==
    CASE self.tag = "Normal" -> Returned(self.m)
      [] self.tag = "Deadline" -> Returned(self.m)
      [] self.tag = "Spawn" -> Returned(self.m)
      [] self.tag = "Done" -> Panic(<<"expected machine, got", self>>)
      [] self.tag = "Error" -> Panic(<<"expected machine, got", self>>)

\* the panic message prints the whole response it found ({:?})
expect_machine(self) ==
    CASE self.tag = "Normal" -> Returned(self.m)
      [] self.tag = "Deadline" -> Returned(self.m)
      [] self.tag = "Spawn" -> Panic(<<"expected machine, got", self>>)
      [] self.tag = "Done" -> Panic(<<"expected machine, got", self>>)
      [] self.tag = "Error" -> Panic(<<"expected machine, got", self>>)

\* ---------------------------------------------------------------- decompose
\* warn!() writes one record when the log_errors feature is compiled in
Warning(token, e) == [error |-> e, token |-> token]

\* decompose() variants: one loses the time of a Deadline, one reports a
\* deadline next to a spawn payload, one warns whatever the feature flag, one
\* hands back a machine for an Error
decompose_ErrorSurvives(token, res, log_errors) ==
    CASE res.tag = "Normal" ->
            [triple |-> <<Ok(res.m), None, None>>, warned |-> <<>>]
      [] res.tag = "Deadline" ->
            [triple |-> <<Ok(res.m), None, Some(res.t)>>, warned |-> <<>>]
      [] res.tag = "Spawn" ->
            [triple |-> <<Ok(res.m), Some(res.n), None>>, warned |-> <<>>]
      [] res.tag = "Done" ->
            [triple |-> <<Err(None), None, None>>, warned |-> <<>>]
      [] res.tag = "Error" ->
            [triple |-> <<Ok(<<"m1">>), None, None>>,
             warned |-> IF log_errors THEN <<Warning(token, res.e)>> ELSE <<>>]

decompose_DropsDeadline(token, res, log_errors) ==
    CASE res.tag = "Normal" ->
            [triple |-> <<Ok(res.m), None, None>>, warned |-> <<>>]
      [] res.tag = "Deadline" ->
            [triple |-> <<Ok(res.m), None, None>>, warned |-> <<>>]
      [] res.tag = "Spawn" ->
            [triple |-> <<Ok(res.m), Some(res.n), None>>, warned |-> <<>>]
      [] res.tag = "Done" ->
            [triple |-> <<Err(None), None, None>>, warned |-> <<>>]
      [] res.tag = "Error" ->
            [triple |-> <<Err(Some(res.e)), None, None>>,
             warned |-> IF log_errors THEN <<Warning(token, res.e)>> ELSE <<>>]

decompose_SpawnWithDeadline(token, res, log_errors) ==
    CASE res.tag = "Normal" ->
            [triple |-> <<Ok(res.m), None, None>>, warned |-> <<>>]
      [] res.tag = "Deadline" ->
            [triple |-> <<Ok(res.m), None, Some(res.t)>>, warned |-> <<>>]
      [] res.tag = "Spawn" ->
            [triple |-> <<Ok(res.m), Some(res.n), Some(0)>>, warned |-> <<>>]
      [] res.tag = "Done" ->
            [triple |-> <<Err(None), None, None>>, warned |-> <<>>]
      [] res.tag = "Error" ->
            [triple |-> <<Err(Some(res.e)), None, None>>,
             warned |-> IF log_errors THEN <<Warning(token, res.e)>> ELSE <<>>]

\* decompose() variant that reports a deadline for a plain Normal response
decompose_ContinueResets(token, res, log_errors) ==
    CASE res.tag = "Normal" ->
            [triple |-> <<Ok(res.m), None, Some(0)>>, warned |-> <<>>]
      [] res.tag = "Deadline" ->
            [triple |-> <<Ok(res.m), None, Some(res.t)>>, warned |-> <<>>]
      [] res.tag = "Spawn" ->
            [triple |-> <<Ok(res.m), Some(res.n), None>>, warned |-> <<>>]
      [] res.tag = "Done" ->
            [triple |-> <<Err(None), None, None>>, warned |-> <<>>]
      [] res.tag = "Error" ->
            [triple |-> <<Err(Some(res.e)), None, None>>,
             warned |-> IF log_errors THEN <<Warning(token, res.e)>> ELSE <<>>]

decompose_AlwaysWarns(token, res, log_errors) ==
    CASE res.tag = "Normal" ->
            [triple |-> <<Ok(res.m), None, None>>, warned |-> <<>>]
      [] res.tag = "Deadline" ->
            [triple |-> <<Ok(res.m), None, Some(res.t)>>, warned |-> <<>>]
      [] res.tag = "Spawn" ->
            [triple |-> <<Ok(res.m), Some(res.n), None>>, warned |-> <<>>]
      [] res.tag = "Done" ->
            [triple |-> <<Err(None), None, None>>, warned |-> <<>>]
      [] res.tag = "Error" ->
            [triple |-> <<Err(Some(res.e)), None, None>>,
             warned |-> <<Warning(token, res.e)>>]

\* the triple decompose returns, and the warnings it emits on the way
decompose(token, res, log_errors) ==
    CASE res.tag = "Normal" ->
            [triple |-> <<Ok(res.m), None, None>>, warned |-> <<>>]
      [] res.tag = "Deadline" ->
            [triple |-> <<Ok(res.m), None, Some(res.t)>>, warned |-> <<>>]
      [] res.tag = "Spawn" ->
            [triple |-> <<Ok(res.m), Some(res.n), None>>, warned |-> <<>>]
      [] res.tag = "Done" ->
            [triple |-> <<Err(None), None, None>>, warned |-> <<>>]
      [] res.tag = "Error" ->
            [triple |-> <<Err(Some(res.e)), None, None>>,
             warned |-> IF log_errors THEN <<Warning(token, res.e)>> ELSE <<>>]

\* ---------------------------------------------------------------- state
VARIABLES
    pc,         \* "idle" | "built" | "panicked" | "decomposed" | "extracted"
    r,          \* the Response in flight (or the Panic that ended the call chain)
    origin,     \* the constructor call that created r
    hist,       \* the combinators applied to r since, oldest first
    applied,    \* the machine mappers map() and wrap() were given, oldest first
    last,       \* the most recent call: its name, receiver, arguments, return value
    out,        \* the triple returned by the most recent decompose
    log,        \* warnings emitted so far
    failed,     \* <<token, error>> of every Error response a caller decomposed
    logErrors,  \* cfg!(feature = "log_errors")
    rounds,     \* responses consumed so far: decomposed, or lost to a panic
    slots,      \* driver: slot token -> the machine stored there, or free
    timers,     \* driver: slot token -> the deadline held for its machine
    pending,    \* driver: tokens of the machines that are owed a spawned()
    ended,      \* machine id -> "live", or the variant that ended it
    nextId,     \* id of the next machine to be registered
    crashed,    \* a callback or creator panicked: the process is gone
    greeted,    \* machine id -> it has received a spawned() trigger
    asked,      \* machine id -> the time of the last Deadline it returned
    lastTrig    \* the most recent trigger delivered and what came of it

rvars == <<pc, r, origin, hist, applied, last, out, rounds>>
dvars == <<slots, timers, pending, ended, nextId, crashed, greeted, asked,
          lastTrig>>
vars == <<rvars, log, failed, logErrors, dvars>>

NoCall == [op |-> "none"]

Slots == 0..(NumSlots - 1)
FreeSlot == [free |-> TRUE, id |-> 0, m |-> <<>>]
Stored(id, m) == [free |-> FALSE, id |-> id, m |-> m]
NoTrig == [kind |-> "none"]

\* no driver is running
DriverOff ==
    /\ slots = [s \in Slots |-> FreeSlot]
    /\ timers = [s \in Slots |-> None]
    /\ pending = <<>>
    /\ ended = [i \in 1..MaxMachines |-> "live"]
    /\ nextId = 1
    /\ crashed = FALSE
    /\ greeted = [i \in 1..MaxMachines |-> FALSE]
    /\ asked = [i \in 1..MaxMachines |-> None]
    /\ lastTrig = NoTrig

Init ==
    /\ pc = "idle"
    /\ r = Done
    /\ origin = NoCall
    /\ hist = <<>>
    /\ applied = <<>>
    /\ last = NoCall
    /\ out = <<>>
    /\ log = <<>>
    /\ failed = <<>>
    /\ logErrors \in BOOLEAN
    /\ rounds = 0
    /\ DriverOff

\* a constructor call: a new Response comes into being
Fresh(ctor) ==
    /\ pc # "built"
    /\ rounds < MaxRounds
    /\ pc' = "built"
    /\ r' = CASE ctor.op = "ok" -> ok(ctor.m)
              [] ctor.op = "spawn" -> spawn(ctor.m, ctor.n)
              [] ctor.op = "done" -> done
              [] ctor.op = "error" -> error(ctor.e)
    /\ origin' = ctor
    /\ hist' = <<>>
    /\ applied' = <<>>
    /\ last' = ctor
    /\ out' = <<>>
    /\ UNCHANGED <<log, failed, logErrors, rounds, dvars>>

NewOk ==
    \E m \in Machines : Fresh([m |-> m, op |-> "ok"])

NewSpawn ==
    \E m \in Machines, n \in Seeds : Fresh([m |-> m, n |-> n, op |-> "spawn"])

NewDone == Fresh([op |-> "done"])

NewError ==
    \E e \in Errors : Fresh([e |-> e, op |-> "error"])

CanCall == pc = "built" /\ Len(hist) < MaxOps

\* a consuming combinator (self by value): the receiver is replaced by what
\* the call returns, or the call panics and nothing is returned
Transform(op, f, g, t) ==
    /\ CanCall
    /\ LET ret == CASE op = "deadline" -> deadline(r, t)
                    [] op = "map" -> map(r, f, g)
                    [] op = "wrap" -> wrap(r, f)
       IN
       /\ r' = ret
       /\ pc' = IF ret.tag = "Panic" THEN "panicked" ELSE "built"
       /\ rounds' = IF ret.tag = "Panic" THEN rounds + 1 ELSE rounds
    /\ hist' = Append(hist, op)
    /\ applied' = IF op = "deadline" THEN applied ELSE Append(applied, f)
    /\ last' = [before |-> r, f |-> f, g |-> g, op |-> op, t |-> t]
    /\ UNCHANGED <<origin, out, log, failed, logErrors, dvars>>

\* arguments a call does not take are recorded as "-"
CallDeadline ==
    \E t \in Times : Transform("deadline", "-", "-", t)

CallMap ==
    \E f \in SelfMappers, g \in ResultMappers : Transform("map", f, g, "-")

CallWrap ==
    \E f \in SelfMappers : Transform("wrap", f, "-", "-")

\* a borrowing method (&self): the receiver stays where it is
Inspect(op) ==
    /\ CanCall
    /\ hist' = Append(hist, op)
    /\ last' = [before |-> r, op |-> op,
                ret |-> CASE op = "is_stopped" -> is_stopped(r)
                          [] op = "cause" -> cause(r)]
    /\ UNCHANGED <<pc, r, origin, applied, out, log, failed, logErrors, rounds,
                   dvars>>

CallIsStopped == Inspect("is_stopped")

CallCause == Inspect("cause")

CallDecompose ==
    \E token \in Tokens :
        /\ pc = "built"
        /\ LET d == decompose(token, r, logErrors) IN
           /\ out' = d.triple
           /\ log' = log \o d.warned
        /\ pc' = "decomposed"
        /\ failed' = IF r.tag = "Error"
                     THEN Append(failed, <<token, r.e>>) ELSE failed
        /\ last' = [before |-> r, op |-> "decompose", token |-> token]
        /\ rounds' = rounds + 1
        /\ UNCHANGED <<r, origin, hist, applied, logErrors, dvars>>

\* a test takes the machine out of the response, or panics trying
CallExpectMachine ==
    /\ pc = "built"
    /\ LET ret == expect_machine(r) IN
       /\ r' = IF ret.tag = "Panic" THEN ret ELSE r
       /\ pc' = IF ret.tag = "Panic" THEN "panicked" ELSE "extracted"
       /\ last' = [before |-> r, op |-> "expect_machine", ret |-> ret]
    /\ rounds' = rounds + 1
    /\ UNCHANGED <<origin, hist, applied, out, log, failed, logErrors, dvars>>

Next ==
    \/ NewOk
    \/ NewSpawn
    \/ NewDone
    \/ NewError
    \/ CallDeadline
    \/ CallMap
    \/ CallWrap
    \/ CallIsStopped
    \/ CallCause
    \/ CallDecompose
    \/ CallExpectMachine

Spec == Init /\ [][Next]_vars

\* ---------------------------------------------------------------- echo example
\* enum Echo and struct ConnCreator, by the socket they own
EchoServer(sock) == <<"Server", sock>>
EchoConnection(sock) == <<"Connection", sock>>
ConnCreator(conn) == <<"ConnCreator", conn>>
IsEcho(m) == m[1] = "Server" \/ m[1] = "Connection"

\* sock.accept(): Ok(Some((conn, _))), Ok(None) or Err(e)
Accepts == {<<"conn", "c1">>, <<"none">>, <<"err">>}
\* sock.try_read(): Err(e), Ok(Some(x)) for any x, 0 included, or Ok(None)
Reads == {"err", "some", "none"}
\* sock.try_write(): Ok(_) or Err(e)
Writes == {"ok", "err"}
\* what the sockets answer during one callback: <<accept, try_read, try_write>>
IOs == Accepts \X Reads \X Writes

\* Echo::accept variant that gives up the listener when accept() fails
Echo_accept_StopsOnError(self, acc) ==
    IF self[1] = "Server"
    THEN CASE acc[1] = "conn" -> spawn(self, ConnCreator(acc[2]))
           [] acc[1] = "none" -> ok(self)
           [] acc[1] = "err" -> done
    ELSE Panic("unreachable")

\* Echo::accept variant that asks for a deadline when nobody is waiting
Echo_accept_SetsDeadline(self, acc) ==
    IF self[1] = "Server"
    THEN CASE acc[1] = "conn" -> spawn(self, ConnCreator(acc[2]))
           [] acc[1] = "none" -> deadline(ok(self), 0)
           [] acc[1] = "err" -> ok(self)
    ELSE Panic("unreachable")

Echo_accept(self, acc) ==
    IF self[1] = "Server"
    THEN CASE acc[1] = "conn" -> spawn(self, ConnCreator(acc[2]))
           [] acc[1] = "none" -> ok(self)
           [] acc[1] = "err" -> ok(self)
    ELSE Panic("unreachable")

\* Echo::ready variant that closes a connection that has nothing to read yet
Echo_ready_StopsOnNone(self, io) ==
    IF self[1] = "Server"
    THEN Echo_accept(self, io[1])
    ELSE CASE io[2] = "err" -> done
           [] io[2] = "some" ->
                IF io[3] = "ok" THEN ok(EchoConnection(self[2])) ELSE done
           [] io[2] = "none" -> done

Echo_ready(self, io) ==
    IF self[1] = "Server"
    THEN Echo_accept(self, io[1])
    ELSE CASE io[2] = "err" -> done
           [] io[2] = "some" ->
                IF io[3] = "ok" THEN ok(EchoConnection(self[2])) ELSE done
           [] io[2] = "none" -> ok(EchoConnection(self[2]))

Echo_spawned(self, io) ==
    IF self[1] = "Server" THEN Echo_accept(self, io[1]) ELSE Panic("unreachable")

Echo_timeout(self) == Panic("unreachable")

Echo_wakeup(self) == Panic("unreachable")

\* ConnCreator::create variant that builds a second Server on the connection
ConnCreator_create_MakesServer(self, registered) ==
    IF registered THEN <<"ok", EchoServer(self[2])>> ELSE <<"panic">>

\* ConnCreator::create -> Echo::connection: scope.register(..).unwrap()
ConnCreator_create(self, registered) ==
    IF registered THEN <<"ok", EchoConnection(self[2])>> ELSE <<"panic">>

\* ---------------------------------------------------------------- driver
\* A machine other than Echo may answer any trigger with any outcome it can
\* build from the constructors and deadline(); when it fails, with this error.
Failures == {"e1"}
MachineOutcomes(m) ==
    {ok(m)} \cup {deadline(ok(m), t) : t \in Times}
            \cup {spawn(m, n) : n \in Seeds}
            \cup {error(e) : e \in Failures} \cup {done}

\* what the sockets may answer during one callback of machine m: a Server
\* only accepts, a Connection only reads and writes, others own no socket
NoIO == <<<<"none">>, "none", "ok">>
Answers(m) ==
    IF m[1] = "Server" THEN {io \in IOs : io[2] = "none" /\ io[3] = "ok"}
    ELSE IF m[1] = "Connection" THEN {io \in IOs : io[1] = <<"none">>}
    ELSE {NoIO}

\* the outcomes a machine's callback may return for a trigger
Callbacks(m, kind, io) ==
    IF IsEcho(m)
    THEN CASE kind = "ready" -> {Echo_ready(m, io)}
           [] kind = "spawned" -> {Echo_spawned(m, io)}
           [] kind = "timeout" -> {Echo_timeout(m)}
           [] kind = "wakeup" -> {Echo_wakeup(m)}
    ELSE MachineOutcomes(m)

\* the creator of a spawn payload: a machine, a creation error, or a panic
Create(seed, how) ==
    IF seed[1] = "ConnCreator"
    THEN ConnCreator_create(seed, how # "fails")
    ELSE IF how = "fails" THEN <<"err">> ELSE <<"ok", <<"m1">>>>

\* the first machine: Echo::new(lst) as in main(), or some other machine
DInit ==
    /\ pc = "idle"
    /\ r = Done
    /\ origin = NoCall
    /\ hist = <<>>
    /\ applied = <<>>
    /\ last = NoCall
    /\ out = <<>>
    /\ rounds = 0
    /\ log = <<>>
    /\ failed = <<>>
    /\ logErrors \in BOOLEAN
    /\ \E m0 \in {<<"m1">>, EchoServer("lst")} :
            slots = [s \in Slots |-> IF s = 0 THEN Stored(1, m0) ELSE FreeSlot]
    /\ timers = [s \in Slots |-> None]
    /\ pending = <<>>
    /\ ended = [i \in 1..MaxMachines |-> "live"]
    /\ nextId = 2
    /\ crashed = FALSE
    /\ greeted = [i \in 1..MaxMachines |-> FALSE]
    /\ asked = [i \in 1..MaxMachines |-> None]
    /\ lastTrig = NoTrig

Min(S) == CHOOSE x \in S : \A y \in S : x <= y

\* One driver step: deliver trigger `kind` to the machine in slot `tok`, take
\* the outcome `res` its callback returns, decompose it and update the
\* bookkeeping: store the surviving machine or release the slot, replace the
\* deadline if one is requested, and materialize and register a spawned
\* machine. The machine that returned the Spawn is owed a spawned() trigger,
\* which comes before any other trigger: spawned() is where response.rs:46-48
\* tells the machine that spawns to set its deadline, and where the Server of
\* the echo example goes on accepting (tcp_echo_server.rs:99-105).
Deliver(tok, kind, io, res, how, queue) ==
    LET id == slots[tok].id
        panicked == res.tag = "Panic"
        d == decompose(tok, res, logErrors)
        first == d.triple[1]
        seed == d.triple[2]
        due == d.triple[3]
        made == IF seed # None THEN Create(seed[1], how) ELSE <<"nothing">>
        slots1 == [slots EXCEPT ![tok] =
                        IF first.ok THEN Stored(id, first.v) ELSE FreeSlot]
        timers1 == IF ~first.ok THEN [timers EXCEPT ![tok] = None]
                   ELSE IF due # None THEN [timers EXCEPT ![tok] = due]
                   ELSE timers
        free == {s \in Slots : slots1[s].free}
        registers == made[1] = "ok" /\ free # {}
        child == IF registers THEN Min(free) ELSE -1
    IN
    /\ greeted' = IF kind = "spawned" THEN [greeted EXCEPT ![id] = TRUE]
                  ELSE greeted
    /\ IF panicked
       THEN /\ crashed' = TRUE
            /\ lastTrig' = [child |-> -1, ended |-> ended[id], first |-> None,
                            id |-> id, io |-> io, kind |-> kind,
                            m |-> slots[tok].m, res |-> res, tok |-> tok]
            /\ UNCHANGED <<rvars, log, failed, logErrors,
                           slots, timers, pending, ended, nextId, asked>>
       ELSE /\ log' = log \o d.warned
            /\ ended' = IF res.tag = "Error" \/ res.tag = "Done"
                        THEN [ended EXCEPT ![id] = res.tag] ELSE ended
            /\ crashed' = (made[1] = "panic")
            /\ slots' = IF registers
                        THEN [slots1 EXCEPT ![child] = Stored(nextId, made[2])]
                        ELSE slots1
            /\ timers' = timers1
            /\ pending' = IF registers THEN Append(queue, tok) ELSE queue
            /\ nextId' = IF registers THEN nextId + 1 ELSE nextId
            /\ asked' = IF res.tag = "Deadline"
                        THEN [asked EXCEPT ![id] = Some(res.t)]
                        ELSE IF res.tag = "Error" \/ res.tag = "Done"
                        THEN [asked EXCEPT ![id] = None]
                        ELSE asked
            /\ lastTrig' = [child |-> child, ended |-> ended[id],
                            first |-> first, id |-> id, io |-> io,
                            kind |-> kind, m |-> slots[tok].m, res |-> res,
                            tok |-> tok]
            /\ UNCHANGED <<rvars, failed, logErrors>>

\* the outcomes admitted while machine ids last
Admitted(res) == res.tag = "Spawn" => nextId <= MaxMachines

\* how the creation of a spawned machine goes, when there is one to create
Hows(res) == IF res.tag = "Spawn" THEN {"works", "fails"} ELSE {"works"}

Running(tok) == ~crashed /\ ~slots[tok].free

\* trigger `kind` goes to the machine in slot `tok`, whose callback runs
Trigger(tok, kind, queue) ==
    \E io \in Answers(slots[tok].m) :
        \E res \in Callbacks(slots[tok].m, kind, io) :
            \E how \in Hows(res) :
                Admitted(res) /\ Deliver(tok, kind, io, res, how, queue)

Ready ==
    \E tok \in Slots :
        /\ Running(tok)
        /\ pending = <<>>
        /\ Trigger(tok, "ready", pending)

\* a deadline the driver holds may elapse
Timeout ==
    \E tok \in Slots :
        /\ Running(tok)
        /\ pending = <<>>
        /\ timers[tok] # None
        /\ Trigger(tok, "timeout", pending)

\* only a machine that handed out a notifier is woken; Echo never does
Wakeup ==
    \E tok \in Slots :
        /\ Running(tok)
        /\ pending = <<>>
        /\ ~IsEcho(slots[tok].m)
        /\ Trigger(tok, "wakeup", pending)

Spawned ==
    /\ pending # <<>>
    /\ Running(Head(pending))
    /\ Trigger(Head(pending), "spawned", Tail(pending))

DNext ==
    \/ Ready
    \/ Timeout
    \/ Wakeup
    \/ Spawned

SpecDriver == DInit /\ [][DNext]_vars

\* ================================================================ claims
Variants == {"Normal", "Deadline", "Spawn", "Error", "Done"}
OnlyOps(S) == \A i \in 1..Len(hist) : hist[i] \in S

\* C1: decompose returns one fixed triple per variant, whatever the token:
\* Continue(m) -> (Ok(m), None, None); WithDeadline(m, t) -> (Ok(m), None,
\* Some(t)); Spawn(m, n) -> (Ok(m), Some(n), None); Stop -> (Err(None), None,
\* None); Fail(e) -> (Err(Some(e)), None, None).
C1_DecomposeTriples ==
    last.op = "decompose" =>
        LET b == last.before IN
        /\ b.tag \in Variants
        /\ b.tag = "Normal" => out = <<Ok(b.m), None, None>>
        /\ b.tag = "Deadline" => out = <<Ok(b.m), None, Some(b.t)>>
        /\ b.tag = "Spawn" => out = <<Ok(b.m), Some(b.n), None>>
        /\ b.tag = "Done" => out = <<Err(None), None, None>>
        /\ b.tag = "Error" => out = <<Err(Some(b.e)), None, None>>

C1_Witness ==
    /\ last.op = "decompose"
    /\ last.before.tag = "Deadline"
    /\ last.token = 1
    /\ out[3] = Some(1)

\* C2: every response reachable through the constructors and non-panicking
\* deadline/map/wrap calls is one of the five variants (decompose has an arm
\* for it), and the triple decompose returns never carries both a spawn
\* payload and a deadline, nor either of them next to Err.
C2_NoInvalidCombination ==
    /\ pc = "built" => r.tag \in Variants
    /\ pc = "decomposed" =>
        /\ ~(out[2] # None /\ out[3] # None)
        /\ ~out[1].ok => (out[2] = None /\ out[3] = None)

C2_Witness ==
    /\ pc = "decomposed"
    /\ origin.op = "spawn"
    /\ Len(hist) >= 2
    /\ out[2] # None

\* C3: deadline(t) on Continue(m) gives WithDeadline(m, t); on
\* WithDeadline(m, t1) it gives WithDeadline(m, t) whatever the order of t1
\* and t; after a chain of k >= 1 deadline calls on ok(m) the response is
\* WithDeadline(m, time of the last call).
C3_DeadlineReplaces ==
    (pc = "built" /\ last.op = "deadline") =>
        /\ last.before.tag \in {"Normal", "Deadline"}
        /\ r = Deadline(last.before.m, last.t)
        /\ (origin.op = "ok" /\ OnlyOps({"deadline"})) =>
                r = Deadline(origin.m, last.t)

C3_Witness ==
    /\ pc = "built"
    /\ last.op = "deadline"
    /\ hist = <<"deadline", "deadline">>
    /\ last.before.tag = "Deadline"
    /\ last.before.t > last.t

\* C4: deadline(t) on Spawn, Stop or Fail always panics: it returns no
\* response, neither the receiver unchanged nor one carrying a deadline.
C4_DeadlinePanics ==
    (last.op = "deadline" /\ last.before.tag \in {"Spawn", "Error", "Done"}) =>
        /\ pc = "panicked"
        /\ r.tag = "Panic"

C4_Witness ==
    /\ pc = "panicked"
    /\ last.op = "deadline"
    /\ last.before.tag = "Error"

\* C5: is_stopped() is true exactly for Stop and Fail, false for Continue,
\* WithDeadline and Spawn, on every reachable response, and leaves the
\* response it inspects as it was.
C5_IsStoppedIffTerminal ==
    /\ pc = "built" => (is_stopped(r) <=> r.tag \in {"Error", "Done"})
    /\ last.op = "is_stopped" =>
        /\ last.ret <=> last.before.tag \in {"Error", "Done"}
        /\ r = last.before

C5_Witness ==
    /\ last.op = "is_stopped"
    /\ last.before.tag = "Error"
    /\ last.ret
    /\ Len(hist) >= 2

\* C6: map(f, g) keeps the variant, the deadline and the error: Continue(m)
\* -> Continue(f(m)); WithDeadline(m, t) -> WithDeadline(f(m), t); Spawn(m, n)
\* -> Spawn(f(m), g(n)); Stop -> Stop; Fail(e) -> Fail(e).
C6_MapPreservesShape ==
    last.op = "map" =>
        LET b == last.before
            f == last.f
            g == last.g
        IN
        /\ r.tag = b.tag
        /\ b.tag = "Normal" => r = Normal(ApplyFn(f, b.m))
        /\ b.tag = "Deadline" => r = Deadline(ApplyFn(f, b.m), b.t)
        /\ b.tag = "Spawn" => r = Spawn(ApplyFn(f, b.m), ApplyFn(g, b.n))
        /\ b.tag = "Done" => r = Done
        /\ b.tag = "Error" => r = Error(b.e)

C6_Witness ==
    /\ last.op = "map"
    /\ last.before.tag = "Spawn"
    /\ last.f = "A"
    /\ last.g = "B"
    /\ r = Spawn(<<"m1", "A">>, <<"n1", "B">>)

\* C7: wrap(f) returns what map(f, identity) returns on every variant: the
\* machine mapped by f, and spawn payload, time and error as they were.
C7_WrapIsMapWithIdentity ==
    last.op = "wrap" =>
        LET b == last.before IN
        /\ r = map(b, last.f, "id")
        /\ b.tag = "Spawn" => r.n = b.n
        /\ b.tag = "Deadline" => r.t = b.t
        /\ b.tag = "Error" => r.e = b.e
        /\ b.tag \in {"Normal", "Deadline", "Spawn"} => r.m = ApplyFn(last.f, b.m)

C7_Witness ==
    /\ last.op = "wrap"
    /\ last.before.tag = "Spawn"
    /\ last.f = "A"
    /\ r.m = <<"m1", "A">>

\* C8: a response created by error(e) and passed through any sequence of map
\* and wrap calls is still Fail(e): cause() returns e at every step, and
\* decompose returns (Err(Some(e)), None, None), never Err(None) or Ok.
C8_ErrorNeverLost ==
    (/\ origin.op = "error"
     /\ OnlyOps({"map", "wrap", "is_stopped", "cause"})
     /\ (pc = "built" \/ pc = "decomposed")) =>
        /\ r = Error(origin.e)
        /\ cause(r) = Some(origin.e)
        /\ last.op = "cause" => last.ret = Some(origin.e)
        /\ pc = "decomposed" => out = <<Err(Some(origin.e)), None, None>>

C8_Witness ==
    /\ pc = "decomposed"
    /\ origin.op = "error"
    /\ origin.e = "e2"
    /\ \E i, j \in 1..Len(hist) : hist[i] = "map" /\ hist[j] = "wrap"
    /\ out[1] = Err(Some("e2"))

\* C9: decompose emits exactly one warning, naming the token and the error,
\* per Fail response when error logging is enabled, none when it is disabled
\* and none for the other variants; the triple is the same either way.
C9_WarnOncePerFail ==
    /\ log = IF logErrors
             THEN [i \in 1..Len(failed) |-> Warning(failed[i][1], failed[i][2])]
             ELSE <<>>
    /\ last.op = "decompose" =>
            out = decompose(last.token, last.before, ~logErrors).triple

C9_Witness ==
    /\ logErrors
    /\ rounds = 2
    /\ Len(failed) = 1
    /\ log = <<Warning(1, "e2")>>
    /\ last.op = "decompose"
    /\ last.before.tag = "Done"

\* C10: when a machine's callback returns Fail(err), or Stop, decompose hands
\* the driver no machine to store (first component Err), the driver releases
\* the machine's slot with its deadline, and no trigger (ready, spawned,
\* timeout, wakeup) is delivered to that machine in any later step.
C10_FailReleasesSlot ==
    /\ \A s \in Slots :
        /\ ~slots[s].free => ended[slots[s].id] = "live"
        /\ slots[s].free => timers[s] = None
    /\ \A i \in 1..Len(pending) : ~slots[pending[i]].free
    /\ (lastTrig.kind # "none") => lastTrig.ended = "live"
    /\ (lastTrig.kind # "none"
        /\ (lastTrig.res.tag = "Error" \/ lastTrig.res.tag = "Done")) =>
            /\ ~lastTrig.first.ok
            /\ ended[lastTrig.id] = lastTrig.res.tag
            /\ slots[lastTrig.tok].free

\* machine 1 failed, its slot 0 went to machine 3, which now gets a trigger
C10_Witness ==
    /\ ended[1] = "Error"
    /\ lastTrig.kind = "ready"
    /\ lastTrig.tok = 0
    /\ lastTrig.id = 3
    /\ ~crashed

\* C13: cause() returns the carried error exactly when the response is an
\* Error and nothing for the four other variants; the call only borrows the
\* response, so the response is the same afterwards and a decompose that
\* follows still yields the triple of that variant.
C13_CauseOnlyOnFail ==
    /\ last.op = "cause" =>
          /\ pc = "built"
          /\ r = last.before
          /\ last.before.tag = "Error" => last.ret = Some(last.before.e)
          /\ last.before.tag # "Error" => last.ret = None
    /\ (pc = "decomposed" /\ hist # <<>> /\ hist[Len(hist)] = "cause") =>
          /\ r = last.before
          /\ out[1].ok = (r.tag = "Normal" \/ r.tag = "Deadline" \/ r.tag = "Spawn")
          /\ r.tag = "Error" => out = <<Err(Some(r.e)), None, None>>
          /\ r.tag = "Done" => out = <<Err(None), None, None>>
          /\ r.tag = "Deadline" => out = <<Ok(r.m), None, Some(r.t)>>

\* an Error was asked for its cause and then decomposed
C13_Witness ==
    /\ pc = "decomposed"
    /\ hist = <<"cause">>
    /\ r.tag = "Error"
    /\ out = <<Err(Some("e2")), None, None>>

\* C14 as first stated: expect_machine() returns the machine of a response
\* made by ok() alone and panics, naming what it found, on every other
\* variant, so that no deadline, spawn payload or error is dropped unseen.
C14_OnlyContinueReturns ==
    last.op = "expect_machine" =>
        /\ last.before.tag = "Normal" => last.ret = Returned(last.before.m)
        /\ last.before.tag # "Normal" =>
              /\ last.ret.tag = "Panic"
              /\ last.ret.msg[2] = last.before

\* C14: expect_machine() returns the machine of a Normal and of a Deadline
\* response (the time of the Deadline is dropped without a word) and panics,
\* printing the response it found, on Spawn, Done and Error, so that no
\* spawn payload and no error is dropped unseen.
C14_ExpectMachine ==
    last.op = "expect_machine" =>
        /\ (last.before.tag = "Normal" \/ last.before.tag = "Deadline") =>
              /\ last.ret = Returned(last.before.m)
              /\ pc = "extracted"
        /\ (last.before.tag = "Spawn" \/ last.before.tag = "Done"
              \/ last.before.tag = "Error") =>
              /\ last.ret.tag = "Panic"
              /\ last.ret.msg[2] = last.before
              /\ pc = "panicked"

\* a response with a deadline gave up its machine, the deadline is gone
C14_Witness ==
    /\ last.op = "expect_machine"
    /\ last.before = Deadline(<<"m1", "A">>, 1)
    /\ last.ret = Returned(<<"m1", "A">>)
    /\ pc = "extracted"

RECURSIVE ApplyAll(_, _)
ApplyAll(m, fs) ==
    IF fs = <<>> THEN m ELSE ApplyAll(ApplyFn(Head(fs), m), Tail(fs))

\* C15: a response holds a machine exactly when it was made by ok() or
\* spawn(); deadline, map, wrap and decompose pass that one machine on, so
\* that the machine in the response, and the one decompose returns, is the
\* machine given to the constructor with every machine mapper applied once,
\* in the order of the calls.
C15_OneMachineMoved ==
    LET given == origin.op = "ok" \/ origin.op = "spawn"
        carried == ApplyAll(origin.m, applied)
    IN
    /\ pc = "built" =>
          /\ given = (r.tag = "Normal" \/ r.tag = "Deadline" \/ r.tag = "Spawn")
          /\ given => r.m = carried
    /\ pc = "decomposed" =>
          /\ given = out[1].ok
          /\ given => out[1] = Ok(carried)

\* a machine went through map, deadline and wrap before it was decomposed
C15_Witness ==
    /\ pc = "decomposed"
    /\ origin.op = "ok"
    /\ hist = <<"map", "deadline", "wrap">>
    /\ applied = <<"A", "A">>
    /\ out = <<Ok(<<"m1", "A", "A">>), None, Some(0)>>

\* C18: is_stopped() is TRUE of a response exactly when the first component
\* of the triple decompose returns for it is an Err, whatever the token; and
\* map() and wrap() return a response with the is_stopped() of the one they
\* were called on.
C18_IsStoppedAgreesWithDecompose ==
    /\ pc = "built" =>
          \A token \in Tokens :
              is_stopped(r) = ~decompose(token, r, logErrors).triple[1].ok
    /\ pc = "decomposed" => is_stopped(last.before) = ~out[1].ok
    /\ (pc = "built" /\ (last.op = "map" \/ last.op = "wrap")) =>
          is_stopped(r) = is_stopped(last.before)
    /\ (pc = "built" /\ last.op = "is_stopped"
        /\ OnlyOps({"map", "wrap", "is_stopped"})) =>
          last.ret = (origin.op = "done" \/ origin.op = "error")

\* an Error went through map and wrap, said it was stopped, and decompose
\* returned an Err for it
C18_Witness ==
    /\ pc = "decomposed"
    /\ hist = <<"map", "wrap", "is_stopped">>
    /\ r.tag = "Error"
    /\ is_stopped(r)
    /\ ~out[1].ok

C12_LatestDeadlineHeld ==
    /\ \A s \in Slots :
          /\ ~slots[s].free => timers[s] = asked[slots[s].id]
          /\ slots[s].free => timers[s] = None
    /\ (lastTrig.kind # "none" /\ lastTrig.res.tag = "Deadline") =>
          timers[lastTrig.tok] = Some(lastTrig.res.t)

\* a deadline elapsed, the machine answered timeout() with a plain Normal,
\* and the driver still holds the time the machine asked for last
C12_Witness ==
    /\ lastTrig.kind = "timeout"
    /\ lastTrig.res.tag = "Normal"
    /\ asked[lastTrig.id] = Some(0)
    /\ timers[lastTrig.tok] = Some(0)

\* C16: ready() and spawned() on the Server of the echo example return
\* Spawn(Server(same listener), ConnCreator(conn)) when accept() yields a
\* connection and Normal(Server(same listener)) when it yields none or
\* fails, never Done, Error or Deadline; so the Server keeps its slot, and
\* in a run of the echo example the acceptor is registered after every
\* trigger.
C16_ServerNeverStops ==
    /\ (lastTrig.kind # "none" /\ lastTrig.m[1] = "Server") =>
          /\ lastTrig.kind = "ready" \/ lastTrig.kind = "spawned"
          /\ lastTrig.io[1][1] = "conn" =>
                lastTrig.res = Spawn(lastTrig.m, ConnCreator(lastTrig.io[1][2]))
          /\ lastTrig.io[1][1] # "conn" => lastTrig.res = Normal(lastTrig.m)
          /\ slots[lastTrig.tok] = Stored(lastTrig.id, lastTrig.m)
    /\ (lastTrig.kind # "none" /\ IsEcho(lastTrig.m)) =>
          /\ slots[0] = Stored(1, EchoServer("lst"))
          /\ ended[1] = "live"

\* accept() failed in spawned(), after a connection had been accepted and had
\* come and gone; the Server is still there
C16_Witness ==
    /\ lastTrig.kind = "spawned"
    /\ lastTrig.m = EchoServer("lst")
    /\ lastTrig.io[1] = <<"err">>
    /\ lastTrig.res = Normal(EchoServer("lst"))
    /\ ended[2] = "Done"
    /\ slots[0] = Stored(1, EchoServer("lst"))

\* C17: ready() on a Connection of the echo example returns Done exactly
\* when try_read fails or when, after a read of some bytes, try_write
\* fails; otherwise (bytes read and written, or nothing to read yet) it
\* returns Normal(Connection(same socket)); it never returns Error, Spawn
\* or Deadline.
C17_ConnectionStopsOnIoError ==
    (lastTrig.kind = "ready" /\ lastTrig.m[1] = "Connection") =>
        LET failure == \/ lastTrig.io[2] = "err"
                       \/ lastTrig.io[2] = "some" /\ lastTrig.io[3] = "err"
        IN
        /\ failure => lastTrig.res = Done
        /\ ~failure => lastTrig.res = Normal(lastTrig.m)
        /\ (lastTrig.res = Done) = slots[lastTrig.tok].free

\* a Connection read some bytes, failed to write them and stopped
C17_Witness ==
    /\ lastTrig.kind = "ready"
    /\ lastTrig.m = EchoConnection("c1")
    /\ lastTrig.io[2] = "some"
    /\ lastTrig.io[3] = "err"
    /\ lastTrig.res = Done
    /\ ended[lastTrig.id] = "Done"

====
